---- MODULE Spec2Model ----
(***************************************************************************)
(* NAStoolSync: import of NAStool's transfer, plugin and download history  *)
(* into MoviePilot's stores (app/plugins/nastoolsync/__init__.py).         *)
(*                                                                         *)
(* A Python str is a sequence of one-character strings, so that split,     *)
(* replace, isdigit and int are computed as Python computes them.          *)
(***************************************************************************)
EXTENDS Integers, Sequences, FiniteSets, TLC

\* ---------------------------------------------------------------- bounds

\* number of invocations of init_plugin in one behaviour
MaxRuns == 2

\* ------------------------------------------------------- Python str model

NL == "\n"
COLON == ":"
DASH == "-"
SLASH == "/"
BACKSLASH == "\\"

Digits == <<"0", "1", "2", "3", "4", "5", "6", "7", "8", "9">>

\* truthiness of a str: `if x`, `not x`.  None and "" are both falsy and are
\* both written <<>>.
Truthy(s) == s # <<>>

\* s[i:], 1-based
DropFirst(s, n) == SubSeq(s, n + 1, Len(s))

\* s.startswith(p)
StartsWith(s, p) == Len(p) <= Len(s) /\ SubSeq(s, 1, Len(p)) = p

\* str.split(sep) for a one-character sep: a list of Len+1 pieces, [""] for ""
RECURSIVE SplitAcc(_, _, _)
SplitAcc(s, sep, cur) ==
    IF s = <<>> THEN <<cur>>
    ELSE IF Head(s) = sep THEN <<cur>> \o SplitAcc(Tail(s), sep, <<>>)
    ELSE SplitAcc(Tail(s), sep, Append(cur, Head(s)))

split(s, sep) == SplitAcc(s, sep, <<>>)

\* str.replace(old, new): every non-overlapping occurrence, left to right;
\* for old = "" new is put before every character and at the end
RECURSIVE ReplaceNonEmpty(_, _, _)
ReplaceNonEmpty(s, old, new) ==
    IF s = <<>> THEN <<>>
    ELSE IF StartsWith(s, old) THEN new \o ReplaceNonEmpty(DropFirst(s, Len(old)), old, new)
    ELSE <<Head(s)>> \o ReplaceNonEmpty(Tail(s), old, new)

RECURSIVE ReplaceEmpty(_, _)
ReplaceEmpty(s, new) ==
    IF s = <<>> THEN new ELSE new \o <<Head(s)>> \o ReplaceEmpty(Tail(s), new)

replace(s, old, new) ==
    IF old = <<>> THEN ReplaceEmpty(s, new) ELSE ReplaceNonEmpty(s, old, new)

\* str.isdigit(): non-empty and every character a digit
isdigit(s) ==
    /\ s # <<>>
    /\ \A i \in 1..Len(s) : \E d \in 1..Len(Digits) : s[i] = Digits[d]

DigitVal(c) == (CHOOSE d \in 1..Len(Digits) : Digits[d] = c) - 1

\* int(s) for a str of digits
RECURSIVE IntAcc(_, _)
IntAcc(s, acc) == IF s = <<>> THEN acc ELSE IntAcc(Tail(s), acc * 10 + DigitVal(Head(s)))

int(s) == IntAcc(s, 0)

\* os.path.basename(p): what follows the last '/'
basename(p) == LET parts == split(p, SLASH) IN parts[Len(parts)]

\* ------------------------------------------------------------ exceptions

NoExc == "none"
IndexError == "IndexError"
ValueError == "ValueError"
TypeError == "TypeError"
AttributeError == "AttributeError"
JSONDecodeError == "JSONDecodeError"
OperationalError == "OperationalError"

\* ------------------------------------------------- rule texts (one per line)

\* sub_paths / sub_downloaders / sub_sites of every line of a rule text
RuleLines(text) == [i \in 1..Len(split(text, NL)) |-> split(split(text, NL)[i], COLON)]

\* sync_transfer_history, `if self._path:` block: every rule is applied, in
\* order, to the result of the rule before it; sub_paths[1] of a line without
\* ':' raises IndexError.
RECURSIVE PathLoop(_, _, _)
PathLoop(rules, msrc, mdest) ==
    IF rules = <<>> THEN [exc |-> NoExc, src |-> msrc, dest |-> mdest]
    ELSE LET sub_paths == Head(rules) IN
         IF Len(sub_paths) < 2 THEN [exc |-> IndexError, src |-> msrc, dest |-> mdest]
         ELSE PathLoop(Tail(rules),
                       replace(replace(msrc, sub_paths[1], sub_paths[2]), <<BACKSLASH>>, <<SLASH>>),
                       replace(replace(mdest, sub_paths[1], sub_paths[2]), <<BACKSLASH>>, <<SLASH>>))

PathMap(self_path, msrc, mdest) ==
    IF Truthy(self_path) THEN PathLoop(RuleLines(self_path), msrc, mdest)
    ELSE [exc |-> NoExc, src |-> msrc, dest |-> mdest]

\* sync_download_history, `if self._site:` block: exact comparison with
\* sub_sites[0]; on a match sub_sites[1] is read (IndexError without ':') and
\* the loop goes on with the rewritten name.
RECURSIVE SiteLoop(_, _)
SiteLoop(rules, msite) ==
    IF rules = <<>> THEN [exc |-> NoExc, site |-> msite]
    ELSE LET sub_sites == Head(rules) IN
         IF msite = sub_sites[1]
         THEN IF Len(sub_sites) < 2 THEN [exc |-> IndexError, site |-> msite]
              ELSE SiteLoop(Tail(rules), sub_sites[2])
         ELSE SiteLoop(Tail(rules), msite)

SiteMap(self_site, msite) ==
    IF Truthy(self_site) THEN SiteLoop(RuleLines(self_site), msite)
    ELSE [exc |-> NoExc, site |-> msite]

\* ------------------------------------------------------- plugin values

\* A JSON scalar held in "to_download" / "downloader": a number, a string, or
\* absent (dict.get gives None).
JInt(n) == [ty |-> "int", n |-> n, s |-> <<>>]
JStr(s) == [ty |-> "str", n |-> 0, s |-> s]
JNone == [ty |-> "none", n |-> 0, s |-> <<>>]

\* str(v).isdigit()
JIsDigit(v) ==
    CASE v.ty = "int" -> v.n >= 0
      [] v.ty = "str" -> isdigit(v.s)
      [] OTHER -> FALSE

\* int(v), for a v with str(v).isdigit()
JInt_of(v) == IF v.ty = "int" THEN v.n ELSE int(v.s)

\* The text of PLUGIN_HISTORY.VALUE by what json.loads makes of it:
\*   "dict"    {"to_download": v, ...}
\*   "list"    [{"downloader": v, ...}, ...]
\*   "invalid" not JSON: json.loads raises
\* form "str" is the text as read, form "obj" the value after json.loads.
JDict(v) == [kind |-> "dict", to_download |-> v, downloaders |-> <<>>]
JList(vs) == [kind |-> "list", to_download |-> JNone, downloaders |-> vs]
JInvalid == [kind |-> "invalid", to_download |-> JNone, downloaders |-> <<>>]
AsStr(doc) == [form |-> "str", doc |-> doc]
AsObj(doc) == [form |-> "obj", doc |-> doc]

\* one pass of the `for downloader in downloaders` body for "TorrentTransfer"
\* (lines 136-147); st = [exc, key, value]
TorrentTransferRule(sub_downloaders, st) ==
    LET keys == split(st.key, DASH)
        sub0ok == isdigit(sub_downloaders[1])       \* else int(sub_downloaders[0]) raises
        keyTest == isdigit(keys[1])
        keyHit == keyTest /\ sub0ok /\ int(keys[1]) = int(sub_downloaders[1])
        doc == st.value.doc
        valTest == doc.kind = "dict" /\ JIsDigit(doc.to_download)
        valHit == valTest /\ sub0ok /\ JInt_of(doc.to_download) = int(sub_downloaders[1])
    IN  IF keyTest /\ ~sub0ok THEN [st EXCEPT !.exc = ValueError]
        ELSE IF keyHit /\ Len(sub_downloaders) < 2 THEN [st EXCEPT !.exc = IndexError]
        ELSE LET plugin_key == IF keyHit THEN replace(st.key, keys[1], sub_downloaders[2])
                               ELSE st.key
             IN  IF st.value.form = "str" /\ doc.kind = "invalid"
                 THEN [st EXCEPT !.exc = JSONDecodeError, !.key = plugin_key]
                 ELSE IF doc.kind # "dict"
                 THEN [st EXCEPT !.exc = AttributeError, !.key = plugin_key]
                 ELSE IF valTest /\ ~sub0ok
                 THEN [st EXCEPT !.exc = ValueError, !.key = plugin_key]
                 ELSE IF valHit /\ Len(sub_downloaders) < 2
                 THEN [st EXCEPT !.exc = IndexError, !.key = plugin_key]
                 ELSE [exc |-> NoExc,
                       key |-> plugin_key,
                       value |-> AsObj(IF valHit
                                       THEN [doc EXCEPT !.to_download = JStr(sub_downloaders[2])]
                                       ELSE doc)]

\* `for value in plugin_value` of "IYUUAutoSeed" (lines 153-156), over the
\* "downloader" fields
RECURSIVE AutoSeedItems(_, _)
AutoSeedItems(sub_downloaders, vs) ==
    IF vs = <<>> THEN [exc |-> NoExc, vs |-> <<>>]
    ELSE LET v == Head(vs)
             test == JIsDigit(v)
             sub0ok == isdigit(sub_downloaders[1])
             hit == test /\ sub0ok /\ JInt_of(v) = int(sub_downloaders[1])
         IN  IF test /\ ~sub0ok THEN [exc |-> ValueError, vs |-> vs]
             ELSE IF hit /\ Len(sub_downloaders) < 2 THEN [exc |-> IndexError, vs |-> vs]
             ELSE LET rest == AutoSeedItems(sub_downloaders, Tail(vs))
                  IN  [exc |-> rest.exc,
                       vs |-> <<IF hit THEN JStr(sub_downloaders[2]) ELSE v>> \o rest.vs]

\* one pass of the loop body for "IYUUAutoSeed" (lines 150-156)
IYUUAutoSeedRule(sub_downloaders, st) ==
    LET doc == st.value.doc IN
    IF st.value.form = "str" /\ doc.kind = "invalid" THEN [st EXCEPT !.exc = JSONDecodeError]
    ELSE IF doc.kind # "list" THEN [st EXCEPT !.exc = AttributeError]
    ELSE LET r == AutoSeedItems(sub_downloaders, doc.downloaders)
         IN  IF r.exc # NoExc THEN [st EXCEPT !.exc = r.exc]
             ELSE [exc |-> NoExc, key |-> st.key,
                   value |-> AsObj([doc EXCEPT !.downloaders = r.vs])]

\* sync_plugin_history, `for downloader in downloaders` (lines 133-156): no
\* break, every rule sees the key and the value the rules before it left
RECURSIVE DownloaderLoop(_, _, _)
DownloaderLoop(rules, plugin_id, st) ==
    IF rules = <<>> \/ st.exc # NoExc THEN st
    ELSE DownloaderLoop(Tail(rules), plugin_id,
                        CASE plugin_id = "TorrentTransfer" -> TorrentTransferRule(Head(rules), st)
                          [] plugin_id = "IYUUAutoSeed" -> IYUUAutoSeedRule(Head(rules), st)
                          [] OTHER -> st)

DownloaderMap(self_downloader, plugin_id, plugin_key, plugin_value) ==
    LET st == [exc |-> NoExc, key |-> plugin_key, value |-> plugin_value] IN
    IF Truthy(self_downloader) THEN DownloaderLoop(RuleLines(self_downloader), plugin_id, st)
    ELSE st

\* ------------------------------------------------------------ input sets

\* rule texts of the configuration form: none, two chained rules, and a line
\* without ':'; for the paths also a single rule
PathTexts == { <<>>,
               <<"a", ":", "b">>,
               <<"a", ":", "b", "\n", "b", ":", "c">>,
               <<"a">> }
DownloaderTexts == { <<>>,
                     <<"1", ":", "2", "\n", "2", ":", "3">>,
                     <<"1">> }
SiteTexts == { <<>>,
               <<"A", ":", "B", "\n", "B", ":", "C">>,
               <<"A">> }

\* rows fetched by get_nt_transfer_history: src, dest and the columns that are
\* copied as they are (row)
TransferTables == { <<>>,
                    << [src |-> <<"a", "\\", "a">>, dest |-> <<"/", "a">>, row |-> "t1"],
                       [src |-> <<"/", "x">>, dest |-> <<>>, row |-> "t2"],
                       [src |-> <<"/", "y">>, dest |-> <<"/", "z">>, row |-> "t3"] >> }

\* rows of PLUGIN_HISTORY: history[1], history[2], history[3]
PluginTables == { <<>>,
                  << [plugin_id |-> "TorrentTransfer", key |-> <<"2", "-", "a", "2">>,
                      value |-> AsStr(JDict(JInt(2)))],
                     [plugin_id |-> "IYUUAutoSeed", key |-> <<"h">>,
                      value |-> AsStr(JList(<<JStr(<<"1">>)>>))],
                     [plugin_id |-> "Other", key |-> <<"k">>,
                      value |-> AsStr(JInvalid)] >>,
                  << [plugin_id |-> "TorrentTransfer", key |-> <<"1", "-", "b">>,
                      value |-> AsStr(JInvalid)],
                     [plugin_id |-> "Other", key |-> <<"k">>,
                      value |-> AsStr(JDict(JNone))] >> }

\* rows fetched by get_nt_download_history: SAVE_PATH, SITE and the rest
DownloadTables == { <<>>,
                    << [path |-> <<"/", "d", "/", "f">>, site |-> <<"A">>, row |-> "d1"],
                       [path |-> <<"g">>, site |-> <<"B">>, row |-> "d2"] >> }

\* the file at nt_db_path: a NAStool database, a path sqlite3.connect cannot
\* open, a file without the tables, a database without PLUGIN_HISTORY
SourceStates == {"ok", "cannot_open", "no_tables", "no_plugin_table"}

DbPaths == { <<>>, <<"/", "n", "t">> }

Configs == [clear : BOOLEAN, nt_db_path : DbPaths, path : PathTexts,
            downloader : DownloaderTexts, site : SiteTexts,
            transfer : BOOLEAN, plugin : BOOLEAN, download : BOOLEAN]

\* what the destination stores hold before the first run
OldTransfer == [src |-> <<"o">>, dest |-> <<"o">>, row |-> "old"]
OldPlugin == [plugin_id |-> "Other", key |-> <<"k">>, value |-> AsStr(JDict(JNone))]
OldDownload == [path |-> <<"o">>, torrent_site |-> <<"A">>, row |-> "old"]

\* ------------------------------------------------------------------ state

Runs == 1..MaxRuns

VARIABLES
    conf,             \* systemconfig "plugin.NAStoolSync": the persisted configuration
    this,             \* the plugin instance's _clear, _nt_db_path, ... (shared by all runs)
    nt_source,        \* what is found at nt_db_path
    nt_transfer,      \* rows the three queries fetch from the NAStool database
    nt_plugin,
    nt_download,
    transferhistory,  \* TransferHistoryOper's table: a list of records
    plugindata,       \* PluginDataOper's table: a set of records, one per (plugin_id, key)
    downloadhistory,  \* DownloadHistoryOper's table: a list of records
    nruns,            \* invocations of init_plugin so far
    pc,               \* per invocation: where it is in init_plugin
    history,          \* per invocation: transfer_history / plugin_history / download_history
    idx,              \* per invocation: position of the `for history in ...` loop
    gradedb,          \* per invocation: the sqlite3 connection (no code closes it)
    cursor,           \* per invocation: its cursor
    exc,              \* per invocation: the exception that left init_plugin, and where
    oplog,            \* history: truncate/add/save calls on the stores, in order
    started,          \* history: the config each invocation was given
    before,           \* history: the stores and conf when each invocation began
    finished          \* history: the categories whose sync_* call returned

vars == <<conf, this, nt_source, nt_transfer, nt_plugin, nt_download,
          transferhistory, plugindata, downloadhistory, nruns, pc, history, idx,
          gradedb, cursor, exc, oplog, started, before, finished>>

source == <<nt_source, nt_transfer, nt_plugin, nt_download>>
stores == <<transferhistory, plugindata, downloadhistory>>

\* the stores and the persisted configuration, as an invocation finds them,
\* and whether it finds no other invocation in flight
Snapshot == [transfer |-> transferhistory, plugin |-> plugindata,
             download |-> downloadhistory, conf |-> conf,
             idle |-> \A r \in Runs : pc[r] \in {"ready", "returned", "raised"}]

NoHistory == [none |-> TRUE, rows |-> <<>>]

Init ==
    /\ conf \in Configs
    /\ this = [_clear |-> FALSE, _nt_db_path |-> <<>>, _path |-> <<>>, _site |-> <<>>,
               _transfer |-> FALSE, _plugin |-> FALSE, _downloader |-> <<>>,
               _download |-> FALSE]
    /\ nt_source \in SourceStates
    /\ nt_transfer \in TransferTables
    /\ nt_plugin \in PluginTables
    /\ nt_download \in DownloadTables
    /\ transferhistory = <<OldTransfer>>
    /\ plugindata = {OldPlugin}
    /\ downloadhistory = <<OldDownload>>
    /\ nruns = 0
    /\ pc = [r \in Runs |-> "ready"]
    /\ history = [r \in Runs |-> NoHistory]
    /\ idx = [r \in Runs |-> 0]
    /\ gradedb = [r \in Runs |-> "none"]
    /\ cursor = [r \in Runs |-> "none"]
    /\ exc = [r \in Runs |-> [name |-> NoExc, at |-> "none"]]
    /\ oplog = <<>>
    /\ started = [r \in Runs |-> conf]
    /\ before = [r \in Runs |-> Snapshot]
    /\ finished = [r \in Runs |-> {}]

\* no invocation of init_plugin is in flight
Idle == \A r \in Runs : pc[r] \in {"ready", "returned", "raised"}

\* an exception leaves init_plugin: nothing catches it
Raise(r, name) ==
    /\ pc' = [pc EXCEPT ![r] = "raised"]
    /\ exc' = [exc EXCEPT ![r] = [name |-> name, at |-> pc[r]]]

Log(r, store, op) == Append(oplog, [run |-> r, store |-> store, op |-> op])

\* cursor.fetchall() followed by `if not rows: return` (None)
Fetched(rows) == IF rows = <<>> THEN NoHistory ELSE [none |-> FALSE, rows |-> rows]

\* cursor.execute on a table the file does not have raises
HasTable(table) ==
    CASE nt_source = "ok" -> TRUE
      [] nt_source = "no_plugin_table" -> table # "PLUGIN_HISTORY"
      [] OTHER -> FALSE

\* init_plugin, lines 49-67: the fields are set from config, the guard of line
\* 63 is tested and the database is opened
init_plugin(r, config) ==
    /\ pc[r] = "ready"
    /\ r = nruns + 1
    /\ nruns' = r
    /\ conf' = config
    /\ this' = [_clear |-> config.clear, _nt_db_path |-> config.nt_db_path,
                _path |-> config.path, _site |-> config.site,
                _transfer |-> config.transfer, _plugin |-> config.plugin,
                _downloader |-> config.downloader, _download |-> config.download]
    /\ started' = [started EXCEPT ![r] = config]
    /\ before' = [before EXCEPT ![r] = Snapshot]
    /\ IF Truthy(config.nt_db_path) /\ (config.transfer \/ config.plugin \/ config.download)
       THEN IF nt_source = "cannot_open"
            THEN /\ Raise(r, OperationalError)
                 /\ UNCHANGED <<gradedb, cursor>>
            ELSE /\ gradedb' = [gradedb EXCEPT ![r] = "open"]
                 /\ cursor' = [cursor EXCEPT ![r] = "open"]
                 /\ pc' = [pc EXCEPT ![r] = "transfer"]
                 /\ exc' = exc
       ELSE /\ pc' = [pc EXCEPT ![r] = "returned"]
            /\ UNCHANGED <<gradedb, cursor, exc>>
    /\ UNCHANGED <<source, stores, history, idx, oplog, finished>>

\* the loop goes to its next row, or the sync_* call returns
LoopNext(r, category, nextpc) ==
    /\ exc' = exc
    /\ IF idx[r] < Len(history[r].rows)
       THEN /\ idx' = [idx EXCEPT ![r] = @ + 1]
            /\ UNCHANGED <<pc, finished>>
       ELSE /\ pc' = [pc EXCEPT ![r] = nextpc]
            /\ finished' = [finished EXCEPT ![r] = @ \cup {category}]
            /\ idx' = idx

\* TransferHistoryOper.add: the record is appended
TransferHistoryOper_add(msrc, mdest, row) ==
    Append(transferhistory, [src |-> msrc, dest |-> mdest, row |-> row])

\* PluginDataOper.save: insert, or overwrite the record of (plugin_id, key)
PluginDataOper_save(plugin_id, key, value) ==
    {d \in plugindata : ~(d.plugin_id = plugin_id /\ d.key = key)}
        \cup {[plugin_id |-> plugin_id, key |-> key, value |-> value]}

\* DownloadHistoryOper_add that creates nothing when the record is there already
DownloadHistoryOper_add_IfAbsent(path, torrent_site, row) ==
    LET rec == [path |-> path, torrent_site |-> torrent_site, row |-> row]
    IN  IF \E j \in 1..Len(downloadhistory) : downloadhistory[j] = rec
        THEN downloadhistory
        ELSE Append(downloadhistory, rec)

\* DownloadHistoryOper.add: the record is created
DownloadHistoryOper_add(path, torrent_site, row) ==
    Append(downloadhistory, [path |-> path, torrent_site |-> torrent_site, row |-> row])

\* init_plugin's `if self._transfer:` and get_nt_transfer_history (lines 70-71, 343-395)
get_nt_transfer_history(r) ==
    /\ pc[r] = "transfer"
    /\ IF ~this._transfer
       THEN /\ pc' = [pc EXCEPT ![r] = "plugin"]
            /\ UNCHANGED <<history, exc>>
       ELSE IF ~HasTable("TRANSFER_HISTORY")
       THEN /\ Raise(r, OperationalError)
            /\ UNCHANGED history
       ELSE /\ history' = [history EXCEPT ![r] = Fetched(nt_transfer)]
            /\ pc' = [pc EXCEPT ![r] = "transfer_clear"]
            /\ exc' = exc
    /\ UNCHANGED <<conf, this, source, stores, nruns, idx, gradedb, cursor, oplog,
                   started, before, finished>>

\* sync_transfer_history_clear whose truncate leaves the table as it is
sync_transfer_history_clear_NoTruncate(r) ==
    /\ pc[r] = "transfer_clear"
    /\ IF this._clear
       THEN /\ transferhistory' = transferhistory
            /\ oplog' = Log(r, "transfer", "truncate")
       ELSE UNCHANGED <<transferhistory, oplog>>
    /\ IF history[r].none
       THEN /\ Raise(r, TypeError)
            /\ idx' = idx
       ELSE /\ idx' = [idx EXCEPT ![r] = 1]
            /\ pc' = [pc EXCEPT ![r] = "transfer_rows"]
            /\ exc' = exc
    /\ UNCHANGED <<conf, this, source, plugindata, downloadhistory, nruns, history, gradedb, cursor,
                   started, before, finished>>

\* sync_transfer_history: `if self._clear:` truncate, then the `for` statement is
\* entered (lines 229-235); iterating None raises TypeError
sync_transfer_history_clear(r) ==
    /\ pc[r] = "transfer_clear"
    /\ IF this._clear
       THEN /\ transferhistory' = <<>>
            /\ oplog' = Log(r, "transfer", "truncate")
       ELSE UNCHANGED <<transferhistory, oplog>>
    /\ IF history[r].none
       THEN /\ Raise(r, TypeError)
            /\ idx' = idx
       ELSE /\ idx' = [idx EXCEPT ![r] = 1]
            /\ pc' = [pc EXCEPT ![r] = "transfer_rows"]
            /\ exc' = exc
    /\ UNCHANGED <<conf, this, source, plugindata, downloadhistory, nruns, history, gradedb, cursor,
                   started, before, finished>>

\* Skipped with only msrc tested
Skipped_SrcOnly(msrc, mdest) == ~Truthy(msrc)

\* sync_transfer_history, line 250: `if not msrc or not mdest: continue`
Skipped(msrc, mdest) == ~Truthy(msrc) \/ ~Truthy(mdest)

\* sync_transfer_history: one pass of `for history in transfer_history`
\* (lines 235-277)
sync_transfer_history(r) ==
    /\ pc[r] = "transfer_rows"
    /\ LET h == history[r].rows[idx[r]]
           m == PathMap(this._path, h.src, h.dest)
       IN  IF Skipped(h.src, h.dest)
           THEN /\ LoopNext(r, "transfer", "plugin")
                /\ UNCHANGED <<transferhistory, oplog>>
           ELSE IF m.exc # NoExc
           THEN /\ Raise(r, m.exc)
                /\ UNCHANGED <<transferhistory, oplog, idx, finished>>
           ELSE /\ transferhistory' = TransferHistoryOper_add(m.src, m.dest, h.row)
                /\ oplog' = Log(r, "transfer", "add")
                /\ LoopNext(r, "transfer", "plugin")
    /\ UNCHANGED <<conf, this, source, plugindata, downloadhistory, nruns, history,
                   gradedb, cursor, started, before>>

\* get_nt_plugin_history called without the `if self._plugin:` around it
get_nt_plugin_history_NoFlag(r) ==
    /\ pc[r] = "plugin"
    /\ IF ~HasTable("PLUGIN_HISTORY")
       THEN /\ Raise(r, OperationalError)
            /\ UNCHANGED history
       ELSE /\ history' = [history EXCEPT ![r] = Fetched(nt_plugin)]
            /\ pc' = [pc EXCEPT ![r] = "plugin_clear"]
            /\ exc' = exc
    /\ UNCHANGED <<conf, this, source, stores, nruns, idx, gradedb, cursor, oplog,
                   started, before, finished>>

\* init_plugin's `if self._plugin:` and get_nt_plugin_history (lines 75-76, 284-298)
get_nt_plugin_history(r) ==
    /\ pc[r] = "plugin"
    /\ IF ~this._plugin
       THEN /\ pc' = [pc EXCEPT ![r] = "download"]
            /\ UNCHANGED <<history, exc>>
       ELSE IF ~HasTable("PLUGIN_HISTORY")
       THEN /\ Raise(r, OperationalError)
            /\ UNCHANGED history
       ELSE /\ history' = [history EXCEPT ![r] = Fetched(nt_plugin)]
            /\ pc' = [pc EXCEPT ![r] = "plugin_clear"]
            /\ exc' = exc
    /\ UNCHANGED <<conf, this, source, stores, nruns, idx, gradedb, cursor, oplog,
                   started, before, finished>>

\* sync_plugin_history: `if self._clear:` truncate, then the `for` statement is
\* entered (lines 120-125); iterating None raises TypeError
sync_plugin_history_clear(r) ==
    /\ pc[r] = "plugin_clear"
    /\ IF this._clear
       THEN /\ plugindata' = {}
            /\ oplog' = Log(r, "plugin", "truncate")
       ELSE UNCHANGED <<plugindata, oplog>>
    /\ IF history[r].none
       THEN /\ Raise(r, TypeError)
            /\ idx' = idx
       ELSE /\ idx' = [idx EXCEPT ![r] = 1]
            /\ pc' = [pc EXCEPT ![r] = "plugin_rows"]
            /\ exc' = exc
    /\ UNCHANGED <<conf, this, source, transferhistory, downloadhistory, nruns, history, gradedb, cursor,
                   started, before, finished>>

\* sync_plugin_history: one pass of `for history in plugin_history`
\* (lines 125-160)
sync_plugin_history(r) ==
    /\ pc[r] = "plugin_rows"
    /\ LET h == history[r].rows[idx[r]]
           m == DownloaderMap(this._downloader, h.plugin_id, h.key, h.value)
       IN  IF m.exc # NoExc
           THEN /\ Raise(r, m.exc)
                /\ UNCHANGED <<plugindata, oplog, idx, finished>>
           ELSE /\ plugindata' = PluginDataOper_save(h.plugin_id, m.key, m.value)
                /\ oplog' = Log(r, "plugin", "save")
                /\ LoopNext(r, "plugin", "download")
    /\ UNCHANGED <<conf, this, source, transferhistory, downloadhistory, nruns, history,
                   gradedb, cursor, started, before>>

\* init_plugin's `if self._download:` and get_nt_download_history (lines 80-81, 300-340)
get_nt_download_history(r) ==
    /\ pc[r] = "download"
    /\ IF ~this._download
       THEN /\ pc' = [pc EXCEPT ![r] = "close"]
            /\ UNCHANGED <<history, exc>>
       ELSE IF ~HasTable("DOWNLOAD_HISTORY")
       THEN /\ Raise(r, OperationalError)
            /\ UNCHANGED history
       ELSE /\ history' = [history EXCEPT ![r] = Fetched(nt_download)]
            /\ pc' = [pc EXCEPT ![r] = "download_clear"]
            /\ exc' = exc
    /\ UNCHANGED <<conf, this, source, stores, nruns, idx, gradedb, cursor, oplog,
                   started, before, finished>>

\* sync_download_history: `if self._clear:` truncate, then the `for` statement is
\* entered (lines 174-179); iterating None raises TypeError
sync_download_history_clear(r) ==
    /\ pc[r] = "download_clear"
    /\ IF this._clear
       THEN /\ downloadhistory' = <<>>
            /\ oplog' = Log(r, "download", "truncate")
       ELSE UNCHANGED <<downloadhistory, oplog>>
    /\ IF history[r].none
       THEN /\ Raise(r, TypeError)
            /\ idx' = idx
       ELSE /\ idx' = [idx EXCEPT ![r] = 1]
            /\ pc' = [pc EXCEPT ![r] = "download_rows"]
            /\ exc' = exc
    /\ UNCHANGED <<conf, this, source, transferhistory, plugindata, nruns, history, gradedb, cursor,
                   started, before, finished>>

\* sync_download_history: one pass of `for history in download_history`
\* (lines 179-214)
sync_download_history(r) ==
    /\ pc[r] = "download_rows"
    /\ LET h == history[r].rows[idx[r]]
           m == SiteMap(this._site, h.site)
       IN  IF m.exc # NoExc
           THEN /\ Raise(r, m.exc)
                /\ UNCHANGED <<downloadhistory, oplog, idx, finished>>
           ELSE /\ downloadhistory' = DownloadHistoryOper_add(basename(h.path), m.site, h.row)
                /\ oplog' = Log(r, "download", "add")
                /\ LoopNext(r, "download", "close")
    /\ UNCHANGED <<conf, this, source, transferhistory, plugindata, nruns, history,
                   gradedb, cursor, started, before>>

\* NewConfig with "clear" written back as it was read
NewConfig_KeepsClear ==
    [clear |-> this._clear, nt_db_path |-> this._nt_db_path, path |-> this._path,
     downloader |-> this._downloader, site |-> this._site,
     transfer |-> FALSE, plugin |-> FALSE, download |-> FALSE]

\* NewConfig with the category flags written back as they were read
NewConfig_KeepsFlags ==
    [clear |-> FALSE, nt_db_path |-> this._nt_db_path, path |-> this._path,
     downloader |-> this._downloader, site |-> this._site,
     transfer |-> this._transfer, plugin |-> this._plugin, download |-> this._download]

\* the dict init_plugin hands to update_config (lines 88-99)
NewConfig ==
    [clear |-> FALSE, nt_db_path |-> this._nt_db_path, path |-> this._path,
     downloader |-> this._downloader, site |-> this._site,
     transfer |-> FALSE, plugin |-> FALSE, download |-> FALSE]

\* init_plugin, lines 85-99: cursor.close() and update_config, which stores the
\* dict under "plugin.NAStoolSync"
update_config(r) ==
    /\ pc[r] = "close"
    /\ cursor' = [cursor EXCEPT ![r] = "closed"]
    /\ conf' = NewConfig
    /\ pc' = [pc EXCEPT ![r] = "returned"]
    /\ UNCHANGED <<this, source, stores, nruns, history, idx, gradedb, exc, oplog,
                   started, before, finished>>

\* The configurations init_plugin is invoked with: the persisted one (the
\* plugins are reloaded), or one the operator has just saved from the form:
\* the first run's settings again, with or without `clear`.
Triggers ==
    IF nruns = 0 THEN {conf}
    ELSE {conf, started[1], [started[1] EXCEPT !.clear = TRUE]}

\* init_plugin is invoked when no invocation is in flight
Trigger ==
    /\ Idle
    /\ nruns < MaxRuns
    /\ \E config \in Triggers : init_plugin(nruns + 1, config)

Step ==
    \E r \in Runs :
        \/ get_nt_transfer_history(r)
        \/ sync_transfer_history_clear(r)
        \/ sync_transfer_history(r)
        \/ get_nt_plugin_history(r)
        \/ sync_plugin_history_clear(r)
        \/ sync_plugin_history(r)
        \/ get_nt_download_history(r)
        \/ sync_download_history_clear(r)
        \/ sync_download_history(r)
        \/ update_config(r)

Next == Trigger \/ Step

Spec == Init /\ [][Next]_vars

\* init_plugin is invoked while another invocation is in flight or none is:
\* nothing in init_plugin tests or takes a lock.  The overlaps explored are
\* those of two invocations.
TriggerAny ==
    /\ nruns < MaxRuns
    /\ \E r \in Runs : \A q \in Runs \ {r} : pc[q] \in {"ready", "returned", "raised"}
    /\ \E config \in Triggers : init_plugin(nruns + 1, config)

\* overlapping invocations are explored from readable sources with rows in
\* every table, no rule text and one category enabled
InitConc ==
    /\ Init
    /\ nt_source = "ok"
    /\ Truthy(conf.nt_db_path)
    /\ conf.path = <<>> /\ conf.downloader = <<>> /\ conf.site = <<>>
    /\ Cardinality({c \in {"transfer", "plugin", "download"} : conf[c]}) = 1
    /\ nt_transfer # <<>> /\ nt_plugin # <<>> /\ nt_download # <<>>

NextConc == TriggerAny \/ Step

SpecConc == InitConc /\ [][NextConc]_vars

\* ------------------------------------------------------------ properties

Categories == {"transfer", "plugin", "download"}

Ended(r) == pc[r] \in {"returned", "raised"}

\* the import ran to its end: the guard of line 63 let it in and it returned
Completed(r) == pc[r] = "returned" /\ gradedb[r] = "open"

\* the calls run r made on one store, and on all of them
OpsOn(r, store) == SelectSeq(oplog, LAMBDA e : e.run = r /\ e.store = store)
OpsOf(r) == SelectSeq(oplog, LAMBDA e : e.run = r)
OpNames(ops) == [i \in 1..Len(ops) |-> ops[i].op]

EnabledIn(config) == {c \in Categories : config[c]}

\* the category whose sync_* call an exception left, "none" otherwise
FailedCategory(r) ==
    CASE exc[r].at \in {"transfer_clear", "transfer_rows"} -> "transfer"
      [] exc[r].at \in {"plugin_clear", "plugin_rows"} -> "plugin"
      [] exc[r].at \in {"download_clear", "download_rows"} -> "download"
      [] OTHER -> "none"

\* sync_* of the category was called in run r
Synced(r, c) == c \in finished[r] \/ FailedCategory(r) = c

Table(c) ==
    CASE c = "transfer" -> nt_transfer
      [] c = "plugin" -> nt_plugin
      [] OTHER -> nt_download

\* a rule text with a line that has no ':'
Malformed(text) ==
    Truthy(text) /\ \E i \in 1..Len(RuleLines(text)) : Len(RuleLines(text)[i]) < 2

ValidTransferRows == SelectSeq(nt_transfer, LAMBDA h : Truthy(h.src) /\ Truthy(h.dest))

\* C1: in a run with clear=true whose transfer category was processed, the
\* transfer store got one truncate, first, and then exactly one add per
\* fetched row with non-empty src and dest.
C1_TruncateThenAppends ==
    \A r \in Runs :
        (Ended(r) /\ started[r].clear /\ Synced(r, "transfer"))
            => OpNames(OpsOn(r, "transfer"))
                 = <<"truncate">> \o [i \in 1..Len(ValidTransferRows) |-> "add"]

\* C2: with clear=true, no run ends with a store truncated by it unless the
\* import of that category completed.
C2_NoTruncateWithoutImport ==
    \A r \in Runs : \A c \in Categories :
        (Ended(r) /\ \E i \in 1..Len(oplog) :
                        oplog[i] = [run |-> r, store |-> c, op |-> "truncate"])
            => c \in finished[r]

\* C3: when the latest run has completed, the persisted configuration has
\* clear=false and the flag of every completed category false, and its
\* nt_db_path, path, downloader and site are those the run was started with.
C3_ConfigReset ==
    \A r \in Runs :
        (r = nruns /\ Completed(r))
            => /\ conf.clear = FALSE
               /\ EnabledIn(started[r]) = finished[r]
               /\ \A c \in finished[r] : conf[c] = FALSE
               /\ conf.nt_db_path = started[r].nt_db_path
               /\ conf.path = started[r].path
               /\ conf.downloader = started[r].downloader
               /\ conf.site = started[r].site

C3_Witness ==
    /\ nruns = 1
    /\ Completed(1)
    /\ started[1].clear
    /\ finished[1] = Categories
    /\ Truthy(started[1].path) /\ Truthy(started[1].downloader) /\ Truthy(started[1].site)

\* init_plugin was invoked again with the configuration a completed run had
\* persisted
Retriggered(r) == r >= 2 /\ Completed(r - 1) /\ started[r] = before[r].conf

\* C4: a run started with the configuration persisted by a completed run
\* makes no call on any store, and the stores stay as that run left them.
C4_RetriggerIsNoop ==
    \A r \in Runs :
        (r = nruns /\ Retriggered(r))
            => /\ OpsOf(r) = <<>>
               /\ transferhistory = before[r].transfer
               /\ plugindata = before[r].plugin
               /\ downloadhistory = before[r].download

C4_Witness ==
    /\ nruns = 2
    /\ Retriggered(2)
    /\ pc[2] = "returned"
    /\ \A c \in Categories : OpsOn(1, c) # <<>>

\* C5: when a run fails in one category, other than by the source being
\* unavailable, every other enabled category has still been imported.
C5_CategoriesIndependent ==
    \A r \in Runs :
        (pc[r] = "raised" /\ FailedCategory(r) # "none")
            => EnabledIn(started[r]) \ {FailedCategory(r)} \subseteq finished[r]

\* C6: no run is left by the failure of one record: a plugin value that is
\* not valid JSON does not end the run, and the rows after it are saved.
C6_RecordFailureIsSkipped ==
    \A r \in Runs :
        /\ ~(pc[r] = "raised" /\ exc[r].name = JSONDecodeError)
        /\ (r = nruns /\ Synced(r, "plugin") /\ Ended(r))
              => \A i \in 1..Len(nt_plugin) :
                    nt_plugin[i].plugin_id = "Other"
                        => \E d \in plugindata : d.plugin_id = "Other" /\ d = nt_plugin[i]

\* C7: no run fails in a category whose table is empty: the category
\* completes with no write and the run goes on.
C7_EmptyCategoryCompletes ==
    \A r \in Runs : \A c \in Categories :
        (pc[r] = "raised" /\ FailedCategory(r) = c) => Table(c) # <<>>

\* C8: a run whose path, downloader or site text has a line without ':'
\* makes no truncate and no write on any store.
C8_RulesValidatedFirst ==
    \A r \in Runs :
        (r <= nruns /\ (Malformed(started[r].path) \/ Malformed(started[r].downloader)
                          \/ Malformed(started[r].site)))
            => OpsOf(r) = <<>>

\* the rules of a text whose source is the number n, in order
RulesFor(text, n) ==
    SelectSeq(RuleLines(text),
              LAMBDA sub : Len(sub) >= 2 /\ isdigit(sub[1]) /\ int(sub[1]) = n)

\* C9: once the latest run has imported the plugin records, every
\* TorrentTransfer row with key "<index>-<hash>" and a downloader rule for
\* <index> is stored under "<destination>-<hash>".
C9_KeyIndexRewritten ==
    \A r \in Runs :
        (r = nruns /\ "plugin" \in finished[r] /\ Truthy(started[r].downloader))
            => \A i \in 1..Len(nt_plugin) :
                  LET h == nt_plugin[i]
                      keys == split(h.key, DASH)
                      rules == IF isdigit(keys[1])
                               THEN RulesFor(started[r].downloader, int(keys[1]))
                               ELSE <<>>
                  IN  (h.plugin_id = "TorrentTransfer" /\ rules # <<>>)
                          => \E d \in plugindata :
                                /\ d.plugin_id = "TorrentTransfer"
                                /\ d.key = rules[1][2] \o DropFirst(h.key, Len(keys[1]))

\* the destination of the first rule whose source is `name`, else `name`
FirstSiteMatch(text, name) ==
    LET hits == SelectSeq(RuleLines(text), LAMBDA sub : Len(sub) >= 2 /\ sub[1] = name)
    IN  IF Truthy(text) /\ hits # <<>> THEN hits[1][2] ELSE name

\* the destination of the first rule whose source is the number of v, else v
FirstDownloaderMatch(text, v) ==
    IF Truthy(text) /\ JIsDigit(v) /\ RulesFor(text, JInt_of(v)) # <<>>
    THEN JStr(RulesFor(text, JInt_of(v))[1][2])
    ELSE v

\* C10: once the latest run has imported a category, each value is the one
\* the first matching rule gives: a site name rewritten by one site rule, or
\* a downloader rewritten by one downloader rule, is not rewritten again.
C10_FirstMatchWins ==
    \A r \in Runs :
        /\ (r = nruns /\ "download" \in finished[r])
              => \A i \in 1..Len(nt_download) :
                    \E j \in 1..Len(downloadhistory) :
                        /\ downloadhistory[j].row = nt_download[i].row
                        /\ downloadhistory[j].torrent_site
                             = FirstSiteMatch(started[r].site, nt_download[i].site)
        /\ (r = nruns /\ "plugin" \in finished[r] /\ Truthy(started[r].downloader))
              => \A i \in 1..Len(nt_plugin) :
                    nt_plugin[i].plugin_id = "IYUUAutoSeed"
                        => \E d \in plugindata :
                              /\ d.plugin_id = "IYUUAutoSeed"
                              /\ d.key = nt_plugin[i].key
                              /\ d.value.doc.downloaders
                                   = [k \in 1..Len(nt_plugin[i].value.doc.downloaders) |->
                                        FirstDownloaderMatch(started[r].downloader,
                                            nt_plugin[i].value.doc.downloaders[k])]

\* s contains p
RECURSIVE Contains(_, _)
Contains(s, p) ==
    IF StartsWith(s, p) THEN TRUE
    ELSE IF s = <<>> THEN FALSE
    ELSE Contains(Tail(s), p)

\* s with its first occurrence of p1 replaced by p2
RECURSIVE ReplaceFirst(_, _, _)
ReplaceFirst(s, p1, p2) ==
    IF StartsWith(s, p1) THEN p2 \o DropFirst(s, Len(p1))
    ELSE IF s = <<>> THEN <<>>
    ELSE <<Head(s)>> \o ReplaceFirst(Tail(s), p1, p2)

\* s with every backslash replaced by '/'
SlashesOnly(s) == [i \in 1..Len(s) |-> IF s[i] = BACKSLASH THEN SLASH ELSE s[i]]

\* the path the single rule p1:p2 is to give for s, when s contains p1
FirstOccurrenceRemap(sub, s) ==
    IF Contains(s, sub[1]) THEN SlashesOnly(ReplaceFirst(s, sub[1], sub[2])) ELSE s

\* the path text is one rule p1:p2 with a non-empty p1
SinglePathRule(text) ==
    Truthy(text) /\ Len(RuleLines(text)) = 1 /\ Len(RuleLines(text)[1]) = 2
        /\ RuleLines(text)[1][1] # <<>>

\* C11: once the latest run has imported the transfer rows under one path
\* rule p1:p2, every row whose src (dest) contains p1 is stored with only the
\* first occurrence of p1 replaced by p2 and every backslash replaced by '/'.
C11_FirstOccurrenceOnly ==
    \A r \in Runs :
        (r = nruns /\ "transfer" \in finished[r] /\ SinglePathRule(started[r].path))
            => \A i \in 1..Len(ValidTransferRows) :
                  LET h == ValidTransferRows[i]
                      sub == RuleLines(started[r].path)[1]
                  IN  \E j \in 1..Len(transferhistory) :
                        /\ transferhistory[j].row = h.row
                        /\ Contains(h.src, sub[1])
                              => transferhistory[j].src = FirstOccurrenceRemap(sub, h.src)
                        /\ Contains(h.dest, sub[1])
                              => transferhistory[j].dest = FirstOccurrenceRemap(sub, h.dest)

\* the fetched transfer row i has an empty src or dest
EmptyPathRow(i) == ~Truthy(nt_transfer[i].src) \/ ~Truthy(nt_transfer[i].dest)

\* C12: a fetched transfer row with an empty src or dest is never stored and
\* never is the row a run fails on, and once the latest run has imported the
\* transfer rows every other row, those after it included, is stored.
C12_EmptyPathRowsSkipped ==
    /\ \A i \in 1..Len(nt_transfer) :
          EmptyPathRow(i)
              => \A j \in 1..Len(transferhistory) : transferhistory[j].row # nt_transfer[i].row
    /\ \A r \in Runs :
          /\ exc[r].at = "transfer_rows" => ~EmptyPathRow(idx[r])
          /\ Len(OpsOn(r, "transfer")) <= 1 + Len(ValidTransferRows)
          /\ (r = nruns /\ "transfer" \in finished[r])
                => \A i \in 1..Len(nt_transfer) :
                      ~EmptyPathRow(i)
                          => \E j \in 1..Len(transferhistory) :
                                transferhistory[j].row = nt_transfer[i].row

C12_Witness ==
    /\ nruns = 1
    /\ "transfer" \in finished[1]
    /\ \E i \in 1..Len(nt_transfer) : \E k \in 1..Len(nt_transfer) :
          /\ i < k
          /\ EmptyPathRow(i)
          /\ ~EmptyPathRow(k)
          /\ \E j \in 1..Len(transferhistory) : transferhistory[j].row = nt_transfer[k].row

\* the destination of the rule whose source is exactly `name`, else `name`
ExactSiteRule(text, name) ==
    IF Truthy(text) /\ \E i \in 1..Len(RuleLines(text)) :
                         Len(RuleLines(text)[i]) >= 2 /\ RuleLines(text)[i][1] = name
    THEN LET i == CHOOSE k \in 1..Len(RuleLines(text)) :
                      /\ Len(RuleLines(text)[k]) >= 2 /\ RuleLines(text)[k][1] = name
                      /\ \A l \in 1..(k - 1) : RuleLines(text)[l][1] # name
         IN  RuleLines(text)[i][2]
    ELSE name

\* C13: every download record the latest run has written carries as
\* torrent_site the destination of the site rule whose source is the row's
\* site name, and the row's site name itself when no rule has that source.
C13_SiteExactMatch ==
    \A r \in Runs : \A i \in 1..Len(nt_download) :
        (r = nruns /\ (\/ "download" \in finished[r]
                       \/ (pc[r] = "download_rows" /\ i < idx[r])))
            => \E j \in 1..Len(downloadhistory) :
                  /\ downloadhistory[j].row = nt_download[i].row
                  /\ downloadhistory[j].path = basename(nt_download[i].path)
                  /\ downloadhistory[j].torrent_site
                       = ExactSiteRule(started[r].site, nt_download[i].site)

\* how many records of a list come from the fetched row `row`
CountRow(list, row) == Cardinality({j \in 1..Len(list) : list[j].row = row})

\* two runs over the same source, both completed, the second started with
\* the first one's settings (`clear` apart)
RanTwice ==
    /\ nruns = 2
    /\ Completed(1)
    /\ Completed(2)
    /\ [started[2] EXCEPT !.clear = FALSE] = [started[1] EXCEPT !.clear = FALSE]

\* C14: after two completed runs with the same settings, with clear=false
\* the plugin store is as the first run left it, with one record per
\* (plugin_id, key), and the transfer and download stores hold every imported
\* row twice; with clear=true in the second run they hold it once.
C14_SecondRun ==
    RanTwice =>
        /\ \A d1 \in plugindata : \A d2 \in plugindata :
              (d1.plugin_id = d2.plugin_id /\ d1.key = d2.key) => d1 = d2
        /\ (~started[1].clear /\ ~started[2].clear) =>
              /\ plugindata = before[2].plugin
              /\ started[2].transfer =>
                    \A i \in 1..Len(ValidTransferRows) :
                        CountRow(transferhistory, ValidTransferRows[i].row) = 2
              /\ started[2].download =>
                    \A i \in 1..Len(nt_download) :
                        CountRow(downloadhistory, nt_download[i].row) = 2
        /\ started[2].clear =>
              /\ started[2].transfer =>
                    \A i \in 1..Len(ValidTransferRows) :
                        CountRow(transferhistory, ValidTransferRows[i].row) = 1
              /\ started[2].download =>
                    \A i \in 1..Len(nt_download) :
                        CountRow(downloadhistory, nt_download[i].row) = 1

C14_Witness ==
    /\ RanTwice
    /\ ~started[1].clear /\ ~started[2].clear
    /\ finished[2] = Categories
    /\ Truthy(started[2].downloader)
    /\ \E d \in plugindata : d.plugin_id = "TorrentTransfer"
    /\ CountRow(transferhistory, "t1") = 2
    /\ CountRow(downloadhistory, "d1") = 2

\* the clear=true case of C14 is reached as well
C14_WitnessClear ==
    /\ RanTwice
    /\ ~started[1].clear /\ started[2].clear
    /\ finished[2] = Categories
    /\ CountRow(transferhistory, "t1") = 1

\* C15: no run ends, by returning or by an exception, with its cursor or its
\* connection to the NAStool database still open.
C15_SourceReleased ==
    \A r \in Runs : Ended(r) => (cursor[r] # "open" /\ gradedb[r] # "open")

\* C16: a run that ends by the source not being opened or queried has made no
\* truncate and no write, and the persisted configuration is the one it was
\* started with.
C16_SourceUnavailableAborts ==
    \A r \in Runs :
        (pc[r] = "raised" /\ exc[r].name = OperationalError)
            => /\ OpsOf(r) = <<>>
               /\ r = nruns => conf = started[r]

Rank(c) == CASE c = "transfer" -> 1 [] c = "plugin" -> 2 [] OTHER -> 3

\* C17: every truncate and write of a run is on the store of a category its
\* config enables; within a run the calls come in the order transfer, plugin,
\* download, and a store gets at most one truncate, before its writes, and at
\* most one write per fetched row.
C17_OnlyEnabledInOrder ==
    /\ \A i \in 1..Len(oplog) : started[oplog[i].run][oplog[i].store]
    /\ \A i \in 1..Len(oplog) : \A k \in 1..Len(oplog) :
          (i < k /\ oplog[i].run = oplog[k].run)
              => /\ Rank(oplog[i].store) <= Rank(oplog[k].store)
                 /\ ~(oplog[k].op = "truncate" /\ oplog[i].store = oplog[k].store)
    /\ \A r \in Runs : \A c \in Categories :
          /\ Len(OpsOn(r, c)) <= (IF started[r].clear THEN 1 ELSE 0) + Len(Table(c))
          /\ (r = nruns /\ ~started[r][c]) => Snapshot[c] = before[r][c]

C17_Witness ==
    /\ nruns = 1
    /\ Completed(1)
    /\ started[1].clear /\ started[1].transfer /\ ~started[1].plugin /\ started[1].download
    /\ Len(OpsOn(1, "transfer")) = 3
    /\ Len(OpsOn(1, "download")) = 3
    /\ plugindata = {OldPlugin}

\* run q made no call on a store before run r had made its last
Before(r, q) ==
    \A i \in 1..Len(oplog) : \A k \in 1..Len(oplog) :
        (oplog[i].run = q /\ oplog[k].run = r) => k < i

\* C18: two invocations of init_plugin are never in flight together, so when
\* two runs with clear=true have both completed, the calls of one all come
\* before the calls of the other and the transfer and download stores hold
\* every row the runs imported exactly once.
C18_OneRunAtATime ==
    /\ Cardinality({r \in Runs : ~(pc[r] \in {"ready", "returned", "raised"})}) <= 1
    /\ \A r \in Runs : \A q \in Runs :
          (r < q /\ Completed(r) /\ Completed(q) /\ q = nruns
                /\ started[r].clear /\ started[q].clear)
              => /\ Before(r, q)
                 /\ started[q].transfer =>
                       \A i \in 1..Len(ValidTransferRows) :
                           CountRow(transferhistory, ValidTransferRows[i].row) = 1
                 /\ started[q].download =>
                       \A i \in 1..Len(nt_download) :
                           CountRow(downloadhistory, nt_download[i].row) = 1

\* every invocation so far began while no other was in flight
Serialized == \A r \in 1..nruns : before[r].idle

\* C18 as amended: init_plugin does not exclude overlapping invocations, but
\* when the caller serialises the triggers, so that every invocation begins
\* after the one before it has ended, a completed run with clear=true that
\* follows another leaves the transfer and download stores holding every row
\* it imported exactly once.
C18_SerializedRunsNoDuplicate ==
    \A q \in Runs :
        (Serialized /\ q = nruns /\ q >= 2 /\ Completed(q) /\ started[q].clear)
            => /\ started[q].transfer =>
                     \A i \in 1..Len(ValidTransferRows) :
                         CountRow(transferhistory, ValidTransferRows[i].row) = 1
               /\ started[q].download =>
                     \A i \in 1..Len(nt_download) :
                         CountRow(downloadhistory, nt_download[i].row) = 1

C18_Witness ==
    /\ nruns = 2
    /\ Serialized
    /\ Completed(1) /\ Completed(2)
    /\ started[1].clear /\ started[2].clear
    /\ started[1].transfer /\ started[2].transfer
    /\ OpsOn(1, "transfer") # <<>>
    /\ CountRow(transferhistory, "t1") = 1

====
